---- MODULE Spec2Model ----
(***************************************************************************)
(* A model of the trace package: the event model (core/trace/event.py),    *)
(* the streaming writer (core/trace/writer.py) and the tracer session      *)
(* (core/trace/tracer.py).  Threads execute the methods statement by       *)
(* statement; the two mutexes (Tracer._lock, ChromeTraceWriter._lock) are  *)
(* explicit, so that every interleaving the locks allow is explored.       *)
(***************************************************************************)
EXTENDS Integers, Sequences, FiniteSets, TLC

\* ------------------------------------------------------------------ bounds
NumThreads == 2
MaxOps == 4
MaxCalls == 3
MaxWriterOps == 5
MaxWriters == 2
MaxSpans == 2
MaxClock == 2
TicksPerMicro == 2

Threads == 1..NumThreads
WriterIds == 1..MaxWriters
SpanIds == 1..MaxSpans

VARIABLES
    enabled,            \* Tracer.enabled
    writer,             \* Tracer._writer: a writer id, 0 for None
    lock,               \* Tracer._lock: the holding thread, 0 when free
    active_spans,       \* Tracer._active_spans: span id -> begin event
    async_events,       \* Tracer._async_events: async id -> begin event
    async_thread_ids,   \* Tracer._async_thread_ids: async id -> lane
    wr,                 \* the ChromeTraceWriter objects: _file, _first_event, _lock, auto_flush
    file,               \* the content of the output file (stream order)
    flushed,            \* how many tokens of file have reached the disk
    pc,                 \* each thread's position
    loc,                \* each thread's locals and the outcome of its last call
    made,               \* ChromeTraceWriter objects constructed so far
    nextSpan,           \* uuid4 span ids drawn so far
    nextUuid,           \* uuid4 async ids drawn so far
    ops,                \* calls the callers have yet to make
    epoch,              \* session changes so far (start, stop, enabled flips)
    issued,             \* the span ids and async ids returned to callers so far
    hist,               \* history of the writer and of the session
    clock,              \* time.time(), in ticks of 1/TicksPerMicro microsecond
    global_tracer,      \* the module's _global_tracer: 1 for the tracer, 0 for None
    script,             \* the calls a scripted host has yet to make, in order
    host,               \* what the platform gives: thread idents, current tasks, md5 of keys
    package_tracer      \* the package's own _global_tracer (core/trace/__init__.py)

vars == <<enabled, writer, lock, active_spans, async_events, async_thread_ids,
          wr, file, flushed, pc, loc, made, nextSpan, nextUuid, ops, epoch, issued, hist,
          clock, global_tracer, script, host, package_tracer>>

envVars == <<clock, global_tracer, script, host, package_tracer>>

sessVars == <<enabled, writer, epoch, made>>
regVars == <<active_spans, async_events, async_thread_ids, nextSpan, nextUuid>>

\* ------------------------------------------------------------- event model
\* Argument values: a primitive, a pathlib.Path, a dict, a list or tuple, or an object
\* json cannot encode.
IntV(n) == [kind |-> "int", v |-> n]
StrV(s) == [kind |-> "str", v |-> s]
PathV(s) == [kind |-> "path", v |-> s]
MapV(m) == [kind |-> "map", v |-> m]
SeqV(q) == [kind |-> "seq", v |-> q]
ObjV == [kind |-> "obj", v |-> "object"]

NoArgs == <<>>
ArgsN3 == [n |-> IntV(3)]
ArgsBad == [h |-> ObjV]

NoneId == "None"

\* threading.current_thread().ident of a thread
ThreadIdent(t) == host.ident[t]

\* asyncio.current_task() is None
NoTask == -1

\* A platform whose threads have small idents and run no task; md5 is as tabulated.
PlainHost == [ident |-> [t \in Threads |-> t], task |-> [t \in Threads |-> NoTask],
              md5 |-> <<>>]

TaskLaneBase == 268435456
LaneWidth == 268435456

\* the lane of a task: h is int(md5(str(id(task))).hexdigest()[:8], 16)
TaskLane(h) == TaskLaneBase + (h % LaneWidth)

\* _get_coroutine_thread_id: the lane of the current task, else the thread's ident
CurrentLane(t) == IF host.task[t] # NoTask THEN TaskLane(host.task[t]) ELSE ThreadIdent(t)

\* The absent timestamp or duration (None), and a given one.
NoTime == <<>>
At(x) == <<x>>

\* time.time() * 1_000_000, a float: the clock's reading, in ticks
Now == clock

\* int(x) of a float x held in ticks: the whole microseconds, truncated toward zero
IntOf(x) == IF x >= 0 THEN x \div TicksPerMicro ELSE -((-x) \div TicksPerMicro)

\* TraceEvent.__init__ with every parameter: timestamp and duration are NoTime or At(x)
TraceEventAt(t, name, ph, cat, args, pid, tid, id, timestamp, duration) ==
    [name |-> name, ph |-> ph, cat |-> cat,
     ts |-> IF timestamp # NoTime THEN timestamp[1] ELSE Now,
     dur |-> duration,
     pid |-> IF pid # -1 THEN pid ELSE ThreadIdent(t),
     tid |-> IF tid # -1 THEN tid ELSE CurrentLane(t),
     args |-> args, id |-> id]

\* TraceEvent.__init__ with the defaults filled in for the calling thread
TraceEvent(t, name, ph, cat, args, pid, tid, id) ==
    TraceEventAt(t, name, ph, cat, args, pid, tid, id, NoTime, NoTime)

NoEvent == [name |-> "", ph |-> "", cat |-> "", ts |-> 0, dur |-> NoTime, pid |-> 0, tid |-> 0,
            args |-> NoArgs, id |-> NoneId]

\* An item of a list or tuple, as the comprehension of _serialize_args leaves it: a
\* Path becomes its string, any other item stays as it is.
SerializeItem(x) == IF x.kind = "path" THEN StrV(x.v) ELSE x

\* _serialize_args
RECURSIVE SerializeArgs(_)
SerializeArgs(args) ==
    IF DOMAIN args = {}
    THEN NoArgs
    ELSE [k \in DOMAIN args |->
            CASE args[k].kind = "path" -> StrV(args[k].v)
              [] args[k].kind = "map" -> MapV(SerializeArgs(args[k].v))
              [] args[k].kind = "seq" ->
                    SeqV([i \in DOMAIN args[k].v |-> SerializeItem(args[k].v[i])])
              [] OTHER -> args[k]]

\* json.dumps encodes the value: a primitive, or a dict or list of values it encodes
RECURSIVE JsonOk(_)
JsonOk(x) ==
    CASE x.kind \in {"int", "str"} -> TRUE
      [] x.kind \in {"map", "seq"} -> \A k \in DOMAIN x.v : JsonOk(x.v[k])
      [] OTHER -> FALSE

\* json.dumps succeeds on the event's dictionary
Serializable(ev) == JsonOk(MapV(SerializeArgs(ev.args)))

\* A dictionary that carries dur whatever the event.
ToDictWithDur(ev) ==
    [name |-> ev.name, ph |-> ev.ph, ts |-> IntOf(ev.ts), pid |-> ev.pid, tid |-> ev.tid,
     cat |-> ev.cat, dur |-> IF ev.dur # NoTime THEN IntOf(ev.dur[1]) ELSE 0]
    @@ (IF ev.args # NoArgs THEN [args |-> SerializeArgs(ev.args)] ELSE <<>>)
    @@ (IF ev.id # NoneId THEN [id |-> ev.id] ELSE <<>>)

\* TraceEvent.to_dict
ToDict(ev) ==
    [name |-> ev.name, ph |-> ev.ph, ts |-> IntOf(ev.ts), pid |-> ev.pid, tid |-> ev.tid,
     cat |-> ev.cat]
    @@ (IF ev.dur # NoTime THEN [dur |-> IntOf(ev.dur[1])] ELSE <<>>)
    @@ (IF ev.args # NoArgs THEN [args |-> SerializeArgs(ev.args)] ELSE <<>>)
    @@ (IF ev.id # NoneId THEN [id |-> ev.id] ELSE <<>>)

\* ------------------------------------------------------------ file tokens
\* by, op and ref are history: the writing thread, the method it was executing and
\* the span id of a B/E event.
OpenTok == [tok |-> "[", json |-> <<>>, by |-> 0, op |-> "open", ref |-> 0]
CloseTok == [tok |-> "]", json |-> <<>>, by |-> 0, op |-> "close", ref |-> 0]
SepTok(t, op) == [tok |-> ",", json |-> <<>>, by |-> t, op |-> op, ref |-> 0]
EvTok(t, op, ev, ref) == [tok |-> "ev", json |-> ToDict(ev), by |-> t, op |-> op, ref |-> ref]

\* What json.load makes of the file: an array of elements, or a syntax error.
Inner(f) == SubSeq(f, 2, Len(f) - 1)

IsArray(f) ==
    /\ Len(f) >= 2
    /\ f[1].tok = "["
    /\ f[Len(f)].tok = "]"
    /\ LET in == Inner(f) IN
        \/ in = <<>>
        \/ /\ Len(in) % 2 = 1
           /\ \A i \in 1..Len(in) : in[i].tok = (IF i % 2 = 1 THEN "ev" ELSE ",")

Elements(f) == LET in == Inner(f) IN [k \in 1..((Len(in) + 1) \div 2) |-> in[2 * k - 1].json]

\* ------------------------------------------------------------ thread state
IdleLoc ==
    [op |-> "none", ev |-> NoEvent, w |-> 0, ret |-> "idle", err |-> "none",
     wrote |-> 0, ref |-> 0, aid |-> NoneId, bev |-> NoEvent, tid |-> 0,
     epoch0 |-> 0, live0 |-> FALSE, quiet0 |-> FALSE, exc |-> FALSE, t0 |-> 0,
     tr |-> 0, ran |-> FALSE]

NewWriter == [file |-> FALSE, first |-> TRUE, lock |-> 0, auto |-> TRUE]

NoneIssued == [spans |-> {}, ids |-> {}]

\* History: the events written since the file was opened, whether a write failed in
\* json.dumps since, the writes that took the first-event branch since, the open()
\* and close() calls that found nothing to do, the start() calls completed, the
\* writers constructed and the files opened since the last stop(), and for each span
\* id the epoch of a started session at its begin_span (-1 otherwise) and the number
\* of end_span calls given it.
NoHist == [written |-> <<>>, failed |-> FALSE, consumed |-> 0,
           idemOpen |-> 0, idemClose |-> 0,
           starts |-> 0, created |-> 0, opened |-> 0,
           sp |-> [s \in SpanIds |-> [e0 |-> -1, ends |-> 0]]]

\* A lock that excludes nobody.
LockNeverHeld(l) == TRUE

\* threading.Lock: acquirable when no thread holds it
LockFree(l) == l = 0

\* Writer locks that stay held when an exception leaves the call.
KeepsLocks(t) == wr

\* The locks thread t holds are released when an exception leaves the with blocks.
Unlocked(t) == [w \in WriterIds |-> IF wr[w].lock = t THEN [wr[w] EXCEPT !.lock = 0] ELSE wr[w]]

\* What stays of a call once it is over: what it was, and how it ended.
Outcome(l) ==
    [IdleLoc EXCEPT !.op = l.op, !.err = l.err, !.wrote = l.wrote, !.ref = l.ref,
                    !.aid = l.aid, !.exc = l.exc, !.ran = l.ran, !.epoch0 = l.epoch0,
                    !.live0 = l.live0, !.quiet0 = l.quiet0]

\* An exception leaves the call: the thread is idle again and err records it.
Raise(t, e) ==
    /\ pc' = [pc EXCEPT ![t] = "idle"]
    /\ loc' = [loc EXCEPT ![t] = Outcome([@ EXCEPT !.err = e])]
    /\ wr' = Unlocked(t)
    /\ lock' = IF lock = t THEN 0 ELSE lock
    /\ UNCHANGED issued

\* What the caller holds once the call has returned: begin_span returns its span id,
\* async_begin its async id.
Issue(t) ==
    CASE loc[t].op = "begin_span" -> [issued EXCEPT !.spans = @ \cup {loc[t].ref}]
      [] loc[t].op = "async_begin" -> [issued EXCEPT !.ids = @ \cup {loc[t].aid}]
      [] OTHER -> issued

\* Control returns: to the caller's next statement, or out of the call.
Return(t) ==
    /\ pc' = [pc EXCEPT ![t] = loc[t].ret]
    /\ issued' = IF loc[t].ret = "idle" THEN Issue(t) ELSE issued
    /\ loc' = IF loc[t].ret = "idle" THEN [loc EXCEPT ![t] = Outcome(@)] ELSE loc

\* ------------------------------------------------- ChromeTraceWriter.open
O_lock(t) ==
    /\ pc[t] = "O_lock"
    /\ LockFree(wr[loc[t].w].lock)
    /\ wr' = [wr EXCEPT ![loc[t].w].lock = t]
    /\ pc' = [pc EXCEPT ![t] = "O_body"]
    /\ UNCHANGED <<envVars, sessVars, regVars, lock, file, flushed, loc, ops, issued, hist>>

\* An open() that truncates and resets whether or not the writer holds a file.
OpenAlways(w, f, h) ==
    [w |-> [w EXCEPT !.file = TRUE, !.first = TRUE], f |-> <<OpenTok>>,
     h |-> [h EXCEPT !.written = <<>>, !.failed = FALSE, !.consumed = 0,
                     !.opened = @ + 1, !.idemOpen = @ + (IF w.file THEN 1 ELSE 0)],
     did |-> TRUE]

\* open(): the file is created or truncated only when the writer holds no file
OpenEffect(w, f, h) ==
    IF w.file
    THEN [w |-> w, f |-> f, h |-> [h EXCEPT !.idemOpen = @ + 1], did |-> FALSE]
    ELSE [w |-> [w EXCEPT !.file = TRUE, !.first = TRUE], f |-> <<OpenTok>>,
          h |-> [h EXCEPT !.written = <<>>, !.failed = FALSE, !.consumed = 0,
                          !.opened = @ + 1],
          did |-> TRUE]

O_body(t) ==
    /\ pc[t] = "O_body"
    /\ LET w == loc[t].w
           r == OpenEffect(wr[w], file, hist) IN
        /\ wr' = [wr EXCEPT ![w] = [r.w EXCEPT !.lock = 0]]
        /\ file' = r.f
        /\ flushed' = IF r.did THEN 0 ELSE flushed
        /\ hist' = r.h
    /\ Return(t)
    /\ UNCHANGED <<envVars, sessVars, regVars, lock, ops>>

\* ------------------------------------------------ ChromeTraceWriter.close
C_lock(t) ==
    /\ pc[t] = "C_lock"
    /\ LockFree(wr[loc[t].w].lock)
    /\ wr' = [wr EXCEPT ![loc[t].w].lock = t]
    /\ pc' = [pc EXCEPT ![t] = "C_body"]
    /\ UNCHANGED <<envVars, sessVars, regVars, lock, file, flushed, loc, ops, issued, hist>>

\* close(): the closing token is written only when the writer holds a file
CloseEffect(w, f, h) ==
    IF w.file
    THEN [w |-> [w EXCEPT !.file = FALSE], f |-> Append(f, CloseTok), h |-> h]
    ELSE [w |-> w, f |-> f, h |-> [h EXCEPT !.idemClose = @ + 1]]

C_body(t) ==
    /\ pc[t] = "C_body"
    /\ LET w == loc[t].w
           r == CloseEffect(wr[w], file, hist) IN
        /\ wr' = [wr EXCEPT ![w] = [r.w EXCEPT !.lock = 0]]
        /\ file' = r.f
        /\ flushed' = IF wr[w].file THEN Len(r.f) ELSE flushed
        /\ hist' = r.h
    /\ Return(t)
    /\ UNCHANGED <<envVars, sessVars, regVars, lock, ops>>

\* ------------------------------------------ ChromeTraceWriter.write_event
W_lock(t) ==
    /\ pc[t] = "W_lock"
    /\ LockFree(wr[loc[t].w].lock)
    /\ wr' = [wr EXCEPT ![loc[t].w].lock = t]
    /\ pc' = [pc EXCEPT ![t] = "W_chk"]
    /\ UNCHANGED <<envVars, sessVars, regVars, lock, file, flushed, loc, ops, issued, hist>>

\* A write_event that does not look at _file.
IsOpenUnchecked(w) == TRUE

\* the guard of write_event: RuntimeError unless the writer holds a file
IsOpen(w) == w.file

W_chk(t) ==
    /\ pc[t] = "W_chk"
    /\ IF IsOpen(wr[loc[t].w])
       THEN /\ pc' = [pc EXCEPT ![t] = "W_sep"]
            /\ UNCHANGED <<wr, loc, lock, issued>>
       ELSE Raise(t, "NotOpen")
    /\ UNCHANGED <<envVars, sessVars, regVars, file, flushed, ops, hist>>

\* A separator written before every event, the first included.
SepAlways(t, op, w, f, h) ==
    [w |-> [w EXCEPT !.first = FALSE], f |-> Append(f, SepTok(t, op)),
     h |-> IF w.first THEN [h EXCEPT !.consumed = @ + 1] ELSE h]

\* the separator: a comma before every event but the first
SepEffect(t, op, w, f, h) ==
    IF ~w.first
    THEN [w |-> w, f |-> Append(f, SepTok(t, op)), h |-> h]
    ELSE [w |-> [w EXCEPT !.first = FALSE], f |-> f, h |-> [h EXCEPT !.consumed = @ + 1]]

W_sep(t) ==
    /\ pc[t] = "W_sep"
    /\ LET w == loc[t].w
           r == SepEffect(t, loc[t].op, wr[w], file, hist) IN
        /\ wr' = [wr EXCEPT ![w] = r.w]
        /\ file' = r.f
        /\ hist' = r.h
    /\ pc' = [pc EXCEPT ![t] = "W_body"]
    /\ UNCHANGED <<envVars, sessVars, regVars, lock, flushed, loc, ops, issued>>

\* A write that puts the text ahead of what the file holds since it was opened.
WrittenAhead(f, tok) == IF Len(f) <= 1 THEN Append(f, tok) ELSE <<f[1], tok>> \o Tail(f)

\* the file after "self._file.write(...)" (line 79): the text goes to the end
Written(f, tok) == Append(f, tok)

W_body(t) ==
    /\ pc[t] = "W_body"
    /\ IF Serializable(loc[t].ev)
       THEN /\ file' = Written(file, EvTok(t, loc[t].op, loc[t].ev, loc[t].ref))
            /\ hist' = [hist EXCEPT !.written = Append(@, ToDict(loc[t].ev))]
            /\ loc' = [loc EXCEPT ![t].wrote = @ + 1]
            /\ pc' = [pc EXCEPT ![t] = "W_flush"]
            /\ UNCHANGED <<wr, lock, issued>>
       ELSE /\ Raise(t, "Serialization")
            /\ hist' = [hist EXCEPT !.failed = TRUE]
            /\ UNCHANGED file
    /\ UNCHANGED <<envVars, sessVars, regVars, flushed, ops>>

W_flush(t) ==
    /\ pc[t] = "W_flush"
    /\ flushed' = IF wr[loc[t].w].auto THEN Len(file) ELSE flushed
    /\ wr' = [wr EXCEPT ![loc[t].w].lock = 0]
    /\ Return(t)
    /\ UNCHANGED <<envVars, sessVars, regVars, lock, file, ops, hist>>

\* ------------------------------------------------ ChromeTraceWriter.flush
F_lock(t) ==
    /\ pc[t] = "F_lock"
    /\ LockFree(wr[loc[t].w].lock)
    /\ wr' = [wr EXCEPT ![loc[t].w].lock = t]
    /\ pc' = [pc EXCEPT ![t] = "F_body"]
    /\ UNCHANGED <<envVars, sessVars, regVars, lock, file, flushed, loc, ops, issued, hist>>

F_body(t) ==
    /\ pc[t] = "F_body"
    /\ flushed' = IF wr[loc[t].w].file THEN Len(file) ELSE flushed
    /\ wr' = [wr EXCEPT ![loc[t].w].lock = 0]
    /\ Return(t)
    /\ UNCHANGED <<envVars, sessVars, regVars, lock, file, ops, hist>>

WriterStep(t) ==
    \/ O_lock(t) \/ O_body(t)
    \/ C_lock(t) \/ C_body(t)
    \/ W_lock(t) \/ W_chk(t) \/ W_sep(t) \/ W_body(t) \/ W_flush(t)
    \/ F_lock(t) \/ F_body(t)

\* ---------------------------------------- the writer used on its own
\* The events the callers of a bare writer hand to write_event.
WriterEvents(t) ==
    { TraceEvent(t, "event1", "i", "default", NoArgs, -1, -1, NoneId),
      TraceEvent(t, "event2", "i", "default", ArgsN3, -1, -1, NoneId),
      TraceEvent(t, "event3", "i", "default", ArgsBad, -1, -1, NoneId) }

Call(t, op, ev, entry) ==
    /\ pc[t] = "idle"
    /\ ops > 0
    /\ ops' = ops - 1
    /\ loc' = [loc EXCEPT ![t] = [IdleLoc EXCEPT !.op = op, !.ev = ev, !.w = 1]]
    /\ pc' = [pc EXCEPT ![t] = entry]
    /\ UNCHANGED <<envVars, sessVars, regVars, lock, wr, file, flushed, issued, hist>>

CallOpen(t) == Call(t, "open", NoEvent, "O_lock")
CallClose(t) == Call(t, "close", NoEvent, "C_lock")
CallFlush(t) == Call(t, "flush", NoEvent, "F_lock")
CallWriteEvent(t) == \E ev \in WriterEvents(t) : Call(t, "write_event", ev, "W_lock")

InitW ==
    /\ enabled = TRUE
    /\ writer = 0
    /\ lock = 0
    /\ active_spans = <<>>
    /\ async_events = <<>>
    /\ async_thread_ids = <<>>
    /\ wr \in {[w \in WriterIds |-> [NewWriter EXCEPT !.auto = a]] : a \in BOOLEAN}
    /\ file = <<>>
    /\ flushed = 0
    /\ pc = [t \in Threads |-> "idle"]
    /\ loc = [t \in Threads |-> IdleLoc]
    /\ made = 1
    /\ nextSpan = 0
    /\ nextUuid = 0
    /\ ops = MaxWriterOps
    /\ epoch = 0
    /\ issued = NoneIssued
    /\ hist = NoHist
    /\ clock = 0
    /\ global_tracer = 0
    /\ script = [calls |-> <<>>, at |-> 1]
    /\ host = PlainHost
    /\ package_tracer = 0

NextW ==
    \E t \in Threads :
        \/ CallOpen(t) \/ CallClose(t) \/ CallFlush(t) \/ CallWriteEvent(t)
        \/ WriterStep(t)

SpecW == InitW /\ [][NextW]_vars

\* ------------------------------------------------------------ the session
\* The session is started: start() has completed and neither start() nor stop() is
\* at work on the writer.
Live == enabled /\ writer # 0 /\ lock = 0

\* Recording is off: the session is disabled or holds no writer.
Quiet == ~enabled \/ writer = 0

\* A call begins: the thread leaves idle with fresh locals.
Invoke(t, l, entry) ==
    /\ pc[t] = "idle"
    /\ ops > 0
    /\ ops' = ops - 1
    /\ loc' = [loc EXCEPT ![t] = [l EXCEPT !.epoch0 = epoch, !.live0 = Live, !.quiet0 = Quiet]]
    /\ pc' = [pc EXCEPT ![t] = entry]

\* The host assigns Tracer.enabled.
SetEnabled(t) ==
    /\ pc[t] = "idle"
    /\ ops > 0
    /\ ops' = ops - 1
    /\ enabled' = ~enabled
    /\ epoch' = epoch + 1
    /\ UNCHANGED <<envVars, writer, made, regVars, lock, wr, file, flushed, pc, loc, issued, hist>>

\* ------------------------------------------------------------ Tracer.start
StartsInFlight == Cardinality({u \in Threads : loc[u].op = "start" /\ pc[u] # "idle"})

CallStart(t) ==
    /\ made + StartsInFlight < MaxWriters
    /\ Invoke(t, [IdleLoc EXCEPT !.op = "start"], IF enabled THEN "S_lock" ELSE "idle")
    /\ UNCHANGED <<envVars, sessVars, regVars, lock, wr, file, flushed, issued, hist>>

S_lock(t) ==
    /\ pc[t] = "S_lock"
    /\ LockFree(lock)
    /\ lock' = t
    /\ pc' = [pc EXCEPT ![t] = "S_chk"]
    /\ UNCHANGED <<envVars, sessVars, regVars, wr, file, flushed, loc, ops, issued, hist>>

\* A start() that constructs a writer whether or not the session holds one.
NeedsWriterAlways(w) == TRUE

\* start() constructs a writer only when the session holds none
NeedsWriter(w) == w = 0

S_chk(t) ==
    /\ pc[t] = "S_chk"
    /\ IF NeedsWriter(writer)
       THEN /\ made' = made + 1
            /\ writer' = made + 1
            /\ wr' = [wr EXCEPT ![made + 1] = NewWriter]
            /\ epoch' = epoch + 1
            /\ loc' = [loc EXCEPT ![t].w = made + 1, ![t].ret = "S_meta"]
            /\ hist' = [hist EXCEPT !.created = @ + 1]
            /\ pc' = [pc EXCEPT ![t] = "O_lock"]
            /\ UNCHANGED lock
       ELSE /\ lock' = 0
            /\ hist' = [hist EXCEPT !.starts = @ + 1]
            /\ pc' = [pc EXCEPT ![t] = "idle"]
            /\ loc' = [loc EXCEPT ![t] = Outcome(@)]
            /\ UNCHANGED <<made, writer, wr, epoch>>
    /\ UNCHANGED <<envVars, enabled, regVars, file, flushed, ops, issued>>

\* write_metadata("process_name", ...) builds the event and hands it to write_event
S_meta(t) ==
    /\ pc[t] = "S_meta"
    /\ loc' = [loc EXCEPT ![t].ev = TraceEvent(t, "process_name", "M", "default",
                                               [name |-> StrV("Habitat Process")],
                                               ThreadIdent(t), 0, NoneId),
                          ![t].ret = "S_rel"]
    /\ pc' = [pc EXCEPT ![t] = "W_lock"]
    /\ UNCHANGED <<envVars, sessVars, regVars, lock, wr, file, flushed, ops, issued, hist>>

S_rel(t) ==
    /\ pc[t] = "S_rel"
    /\ lock' = 0
    /\ hist' = [hist EXCEPT !.starts = @ + 1]
    /\ pc' = [pc EXCEPT ![t] = "idle"]
    /\ loc' = [loc EXCEPT ![t] = Outcome(@)]
    /\ UNCHANGED <<envVars, sessVars, regVars, wr, file, flushed, ops, issued>>

\* ------------------------------------------------------------- Tracer.stop
CallStop(t) ==
    /\ Invoke(t, [IdleLoc EXCEPT !.op = "stop"], IF enabled THEN "T_lock" ELSE "idle")
    /\ UNCHANGED <<envVars, sessVars, regVars, lock, wr, file, flushed, issued, hist>>

T_lock(t) ==
    /\ pc[t] = "T_lock"
    /\ LockFree(lock)
    /\ lock' = t
    /\ pc' = [pc EXCEPT ![t] = "T_chk"]
    /\ UNCHANGED <<envVars, sessVars, regVars, wr, file, flushed, loc, ops, issued, hist>>

T_chk(t) ==
    /\ pc[t] = "T_chk"
    /\ IF writer # 0
       THEN /\ loc' = [loc EXCEPT ![t].w = writer, ![t].ret = "T_clear"]
            /\ epoch' = epoch + 1
            /\ hist' = [hist EXCEPT !.starts = 0, !.created = 0, !.opened = 0]
            /\ pc' = [pc EXCEPT ![t] = "C_lock"]
            /\ UNCHANGED lock
       ELSE /\ lock' = 0
            /\ pc' = [pc EXCEPT ![t] = "idle"]
            /\ loc' = [loc EXCEPT ![t] = Outcome(@)]
            /\ UNCHANGED <<epoch, hist>>
    /\ UNCHANGED <<envVars, enabled, writer, made, regVars, wr, file, flushed, ops, issued>>

T_clear(t) ==
    /\ pc[t] = "T_clear"
    /\ writer' = 0
    /\ lock' = 0
    /\ pc' = [pc EXCEPT ![t] = "idle"]
    /\ loc' = [loc EXCEPT ![t] = Outcome(@)]
    /\ UNCHANGED <<envVars, enabled, epoch, made, regVars, wr, file, flushed, ops, issued, hist>>

\* ----------------------------------------------------- Tracer._write_event
\* "if not self.enabled": the first operand of the guard
WE_en(t) ==
    /\ pc[t] = "WE_en"
    /\ IF enabled
       THEN pc' = [pc EXCEPT ![t] = "WE_wr"] /\ UNCHANGED <<loc, issued>>
       ELSE Return(t)
    /\ UNCHANGED <<envVars, sessVars, regVars, lock, wr, file, flushed, ops, hist>>

\* A guard that does not look at _writer.
HasWriterUnchecked(w) == TRUE

\* "or self._writer is None": the second operand of the guard
HasWriter(w) == w # 0

WE_wr(t) ==
    /\ pc[t] = "WE_wr"
    /\ IF HasWriter(writer)
       THEN pc' = [pc EXCEPT ![t] = "WE_load"] /\ UNCHANGED <<loc, issued>>
       ELSE Return(t)
    /\ UNCHANGED <<envVars, sessVars, regVars, lock, wr, file, flushed, ops, hist>>

\* "self._writer.write_event(event)": the attribute is read again for the call
WE_load(t) ==
    /\ pc[t] = "WE_load"
    /\ IF writer # 0
       THEN /\ loc' = [loc EXCEPT ![t].w = writer]
            /\ pc' = [pc EXCEPT ![t] = "W_lock"]
            /\ UNCHANGED <<wr, lock, issued>>
       ELSE Raise(t, "Attribute")
    /\ UNCHANGED <<envVars, sessVars, regVars, file, flushed, ops, hist>>

\* --------------------------------------------------------- Tracer.metadata
CallMetadata(t) ==
    /\ Invoke(t, [IdleLoc EXCEPT !.op = "metadata"], IF enabled THEN "M_wr" ELSE "idle")
    /\ UNCHANGED <<envVars, sessVars, regVars, lock, wr, file, flushed, issued, hist>>

M_wr(t) ==
    /\ pc[t] = "M_wr"
    /\ IF writer # 0
       THEN pc' = [pc EXCEPT ![t] = "M_load"] /\ UNCHANGED <<loc, issued>>
       ELSE Return(t)
    /\ UNCHANGED <<envVars, sessVars, regVars, lock, wr, file, flushed, ops, hist>>

\* "self._writer.write_metadata(name, args, process_id)"
M_load(t) ==
    /\ pc[t] = "M_load"
    /\ IF writer # 0
       THEN /\ loc' = [loc EXCEPT ![t].w = writer,
                                  ![t].ev = TraceEvent(t, "thread_name", "M", "default",
                                                       [name |-> StrV("worker")],
                                                       ThreadIdent(t), 0, NoneId)]
            /\ pc' = [pc EXCEPT ![t] = "W_lock"]
            /\ UNCHANGED <<wr, lock, issued>>
       ELSE Raise(t, "Attribute")
    /\ UNCHANGED <<envVars, sessVars, regVars, file, flushed, ops, hist>>

\* ------------------------------------------- Tracer.instant, counter, span
Instant(t, name) ==
    Invoke(t, [IdleLoc EXCEPT !.op = "instant",
                              !.ev = TraceEvent(t, name, "i", "default", NoArgs,
                                                -1, -1, NoneId)], "WE_en")

CallInstant(t) ==
    /\ Instant(t, "start")
    /\ UNCHANGED <<envVars, sessVars, regVars, lock, wr, file, flushed, issued, hist>>

CounterValues == {0, 3}

\* Counter args that are left out when the value is falsy.
CounterArgsIfTruthy(v) == IF v # 0 THEN [value |-> IntV(v)] ELSE NoArgs

\* args={"value": value} (line 145)
CounterArgs(v) == [value |-> IntV(v)]

CallCounter(t) ==
    /\ \E v \in CounterValues :
        Invoke(t, [IdleLoc EXCEPT !.op = "counter",
                                  !.ev = TraceEvent(t, "items", "C", "default",
                                                    CounterArgs(v), -1, -1, NoneId)],
               "WE_en")
    /\ UNCHANGED <<envVars, sessVars, regVars, lock, wr, file, flushed, issued, hist>>

SpanArgs == {ArgsN3, ArgsBad}

\* span(name, category, args) is entered: start_time is read (line 163)
EnterSpan(t, op, name, cat, a) ==
    Invoke(t, [IdleLoc EXCEPT !.op = op, !.t0 = Now,
                              !.ev = [NoEvent EXCEPT !.name = name, !.cat = cat, !.args = a]],
           "SP_work")

CallSpan(t) ==
    /\ \E a \in SpanArgs : EnterSpan(t, "span", "work", "default", a)
    /\ UNCHANGED <<envVars, sessVars, regVars, lock, wr, file, flushed, issued, hist>>

\* A duration taken from the end of the scope back to its start.
DurationReversed(start_time, end_time) == start_time - end_time

\* "duration = end_time - start_time" (line 167)
Duration(start_time, end_time) == end_time - start_time

\* A complete event stamped when the scope exits.
CompleteEventAtExit(t, l) ==
    TraceEventAt(t, l.ev.name, "X", l.ev.cat, l.ev.args, -1, -1, NoneId,
                 At(Now), At(Duration(l.t0, Now)))

\* the complete event the finally block builds (lines 166-177)
CompleteEvent(t, l) ==
    TraceEventAt(t, l.ev.name, "X", l.ev.cat, l.ev.args, -1, -1, NoneId,
                 At(l.t0), At(Duration(l.t0, Now)))

\* the wrapped work runs at the yield: it returns, or it raises; the finally block
\* then reads end_time and builds the event
SP_work(t) ==
    /\ pc[t] = "SP_work"
    /\ \E x \in BOOLEAN : loc' = [loc EXCEPT ![t].exc = x, ![t].ran = TRUE,
                                            ![t].ev = CompleteEvent(t, loc[t])]
    /\ pc' = [pc EXCEPT ![t] = "WE_en"]
    /\ UNCHANGED <<envVars, sessVars, regVars, lock, wr, file, flushed, ops, issued, hist>>

\* time passes: time.time() does not go back
Tick ==
    /\ clock < MaxClock
    /\ clock' = clock + 1
    /\ UNCHANGED <<global_tracer, script, host, package_tracer, sessVars, regVars, lock, wr,
                   file, flushed, pc, loc, ops, issued, hist>>

\* ------------------------------------------- Tracer.begin_span, end_span
Labels == {[name |-> "work", cat |-> "default"], [name |-> "load", cat |-> "io"]}

Put(m, k, v) == [x \in DOMAIN m \cup {k} |-> IF x = k THEN v ELSE m[x]]
Drop(m, k) == [x \in DOMAIN m \ {k} |-> m[x]]

\* A lookup that leaves the registration in place.
PopKeeps(m, k) == m

\* the registry after "begin_event = self._active_spans.pop(span_id)" (line 217) and
\* "self._async_events.pop(async_id, None)" (line 305)
Pop(m, k) == Drop(m, k)

CallBeginSpan(t) ==
    /\ nextSpan < MaxSpans
    /\ nextSpan' = nextSpan + 1
    /\ \E l \in Labels :
        Invoke(t, [IdleLoc EXCEPT !.op = "begin_span", !.ref = nextSpan + 1,
                                  !.ev = TraceEvent(t, l.name, "B", l.cat, NoArgs,
                                                    -1, -1, NoneId)], "B_reg")
    /\ hist' = [hist EXCEPT !.sp[nextSpan + 1].e0 = IF Live THEN epoch ELSE -1]
    /\ UNCHANGED <<envVars, sessVars, active_spans, async_events, async_thread_ids, nextUuid,
                   lock, wr, file, flushed, issued>>

B_reg(t) ==
    /\ pc[t] = "B_reg"
    /\ LockFree(lock)
    /\ active_spans' = Put(active_spans, loc[t].ref, loc[t].ev)
    /\ pc' = [pc EXCEPT ![t] = "WE_en"]
    /\ UNCHANGED <<envVars, sessVars, async_events, async_thread_ids, nextSpan, nextUuid,
                   lock, wr, file, flushed, loc, ops, issued, hist>>

\* A caller of end_span holds a span id begin_span returned, or one never issued (0).
CallEndSpan(t) ==
    /\ \E s \in issued.spans \cup {0} :
        /\ Invoke(t, [IdleLoc EXCEPT !.op = "end_span", !.ref = s], "E_pop")
        /\ hist' = IF s = 0 THEN hist ELSE [hist EXCEPT !.sp[s].ends = @ + 1]
    /\ UNCHANGED <<envVars, sessVars, regVars, lock, wr, file, flushed, issued>>

\* A duration-end event that takes the defaults instead of the begin event's fields.
EndEventDefaults(t, bev) == TraceEvent(t, "span", "E", "default", NoArgs, -1, -1, NoneId)

\* the duration-end event of a span (lines 222-227)
EndEvent(t, bev) == TraceEvent(t, bev.name, "E", bev.cat, NoArgs, -1, -1, NoneId)

E_pop(t) ==
    /\ pc[t] = "E_pop"
    /\ LockFree(lock)
    /\ IF loc[t].ref \in DOMAIN active_spans
       THEN /\ active_spans' = Pop(active_spans, loc[t].ref)
            /\ loc' = [loc EXCEPT ![t].bev = active_spans[loc[t].ref],
                                  ![t].ev = EndEvent(t, active_spans[loc[t].ref])]
            /\ pc' = [pc EXCEPT ![t] = "WE_en"]
            /\ UNCHANGED issued
       ELSE /\ Return(t)
            /\ UNCHANGED active_spans
    /\ UNCHANGED <<envVars, sessVars, async_events, async_thread_ids, nextSpan, nextUuid,
                   lock, wr, file, flushed, ops, hist>>

\* ------------------------------------------------ Tracer async operations
AsyncIds == {"op"}

\* the ids uuid.uuid4() yields, in the order drawn
Uuids == <<"00000000-0000-4000-8000-000000000001">>

\* int(hashlib.md5(async_id.encode()).hexdigest()[:8], 16)
Md5Prefix(id) ==
    CASE id \in DOMAIN host.md5 -> host.md5[id]
      [] id = "op" -> 299418250
      [] id = "00000000-0000-4000-8000-000000000001" -> 1167882649

AsyncLaneBase == 536870912

\* A lane folded over twice the width of the range.
AsyncLaneWide(id) == AsyncLaneBase + (Md5Prefix(id) % (2 * LaneWidth))

\* the lane _get_async_thread_id computes for an id it has not cached
AsyncLane(id) == AsyncLaneBase + (Md5Prefix(id) % LaneWidth)

\* Tracer._get_async_thread_id: the cache after the call; the result is its entry for id
Cached(cache, id) ==
    IF id \in DOMAIN cache THEN cache ELSE Put(cache, id, AsyncLane(id))

\* the name, category and args a caller gives async_begin
AsyncOperation == [NoEvent EXCEPT !.name = "async_operation", !.cat = "default"]

CallAsyncBegin(t) ==
    /\ \E id \in AsyncIds \cup {NoneId} :
        /\ id = NoneId => nextUuid < Len(Uuids)
        /\ nextUuid' = IF id = NoneId THEN nextUuid + 1 ELSE nextUuid
        /\ Invoke(t, [IdleLoc EXCEPT !.op = "async_begin", !.ev = AsyncOperation,
                                     !.aid = IF id = NoneId THEN Uuids[nextUuid + 1] ELSE id],
                  "AB_tid")
    /\ UNCHANGED <<envVars, sessVars, active_spans, async_events, async_thread_ids, nextSpan,
                   lock, wr, file, flushed, issued, hist>>

AB_tid(t) ==
    /\ pc[t] = "AB_tid"
    /\ LockFree(lock)
    /\ LET cache == Cached(async_thread_ids, loc[t].aid) IN
        /\ async_thread_ids' = cache
        /\ loc' = [loc EXCEPT ![t].tid = cache[loc[t].aid],
                              ![t].ev = TraceEvent(t, loc[t].ev.name, "b", loc[t].ev.cat,
                                                   loc[t].ev.args, -1, cache[loc[t].aid],
                                                   loc[t].aid)]
    /\ pc' = [pc EXCEPT ![t] = "AB_reg"]
    /\ UNCHANGED <<envVars, sessVars, active_spans, async_events, nextSpan, nextUuid,
                   lock, wr, file, flushed, ops, issued, hist>>

AB_reg(t) ==
    /\ pc[t] = "AB_reg"
    /\ LockFree(lock)
    /\ async_events' = Put(async_events, loc[t].aid, loc[t].ev)
    /\ pc' = [pc EXCEPT ![t] = "WE_en"]
    /\ UNCHANGED <<envVars, sessVars, active_spans, async_thread_ids, nextSpan, nextUuid,
                   lock, wr, file, flushed, loc, ops, issued, hist>>

CallAsyncInstant(t) ==
    /\ \E id \in AsyncIds \cup issued.ids :
        Invoke(t, [IdleLoc EXCEPT !.op = "async_instant", !.aid = id], "AI_tid")
    /\ UNCHANGED <<envVars, sessVars, regVars, lock, wr, file, flushed, issued, hist>>

\* An async-instant event left on the caller's own lane.
AsyncInstantOnCallerLane(t, id, lane) ==
    TraceEvent(t, "async_checkpoint", "n", "default", NoArgs, -1, -1, id)

\* the async-instant event (lines 287-294)
AsyncInstantEvent(t, id, lane) ==
    TraceEvent(t, "async_checkpoint", "n", "default", NoArgs, -1, lane, id)

AI_tid(t) ==
    /\ pc[t] = "AI_tid"
    /\ LockFree(lock)
    /\ LET cache == Cached(async_thread_ids, loc[t].aid) IN
        /\ async_thread_ids' = cache
        /\ loc' = [loc EXCEPT ![t].tid = cache[loc[t].aid],
                              ![t].ev = AsyncInstantEvent(t, loc[t].aid, cache[loc[t].aid])]
    /\ pc' = [pc EXCEPT ![t] = "WE_en"]
    /\ UNCHANGED <<envVars, sessVars, active_spans, async_events, nextSpan, nextUuid,
                   lock, wr, file, flushed, ops, issued, hist>>

CallAsyncEnd(t) ==
    /\ \E id \in AsyncIds \cup issued.ids :
        Invoke(t, [IdleLoc EXCEPT !.op = "async_end", !.aid = id], "AE_pop")
    /\ UNCHANGED <<envVars, sessVars, regVars, lock, wr, file, flushed, issued, hist>>

\* An async-end event left on the caller's own lane.
EndLaneOfCaller(cached, bev) == -1

\* the lane of the async-end event: the cached lane, else the begin event's (lines 312-314)
EndLane(cached, bev) == IF cached = -1 THEN bev.tid ELSE cached

\* An async_end that releases the lane of an id it did not find registered.
UnmatchedReleases(cache, id) == Drop(cache, id)

\* "if begin_event is None: return" (lines 309-310): the return comes before the
\* cleanup of line 328, the lane cache stays as it is
Unmatched(cache, id) == cache

AE_pop(t) ==
    /\ pc[t] = "AE_pop"
    /\ LockFree(lock)
    /\ IF loc[t].aid \in DOMAIN async_events
       THEN LET bev == async_events[loc[t].aid]
                cached == IF loc[t].aid \in DOMAIN async_thread_ids
                          THEN async_thread_ids[loc[t].aid] ELSE -1 IN
            /\ async_events' = Pop(async_events, loc[t].aid)
            /\ loc' = [loc EXCEPT ![t].bev = bev,
                                  ![t].tid = EndLane(cached, bev),
                                  ![t].ev = TraceEvent(t, bev.name, "e", bev.cat, NoArgs,
                                                       -1, EndLane(cached, bev), loc[t].aid),
                                  ![t].ret = "AE_clean"]
            /\ pc' = [pc EXCEPT ![t] = "WE_en"]
            /\ UNCHANGED <<issued, async_thread_ids>>
       ELSE /\ Return(t)
            /\ async_thread_ids' = Unmatched(async_thread_ids, loc[t].aid)
            /\ UNCHANGED async_events
    /\ UNCHANGED <<envVars, sessVars, active_spans, nextSpan, nextUuid,
                   lock, wr, file, flushed, ops, hist>>

\* An async_end that leaves the lane of the id in the cache.
ReleaseNothing(cache, id) == cache

\* "self._async_thread_ids.pop(async_id, None)" (line 328)
Release(cache, id) == Drop(cache, id)

AE_clean(t) ==
    /\ pc[t] = "AE_clean"
    /\ LockFree(lock)
    /\ async_thread_ids' = Release(async_thread_ids, loc[t].aid)
    /\ pc' = [pc EXCEPT ![t] = "idle"]
    /\ loc' = [loc EXCEPT ![t] = Outcome(@)]
    /\ UNCHANGED <<envVars, sessVars, active_spans, async_events, nextSpan, nextUuid,
                   lock, wr, file, flushed, ops, issued, hist>>

\* ------------------------------------------------ the global tracer, wrappers
\* set_global_tracer(tracer): the host sets the global tracer, or clears it
SetGlobalTracer(t) ==
    /\ pc[t] = "idle"
    /\ ops > 0
    /\ ops' = ops - 1
    /\ global_tracer' = 1 - global_tracer
    /\ epoch' = epoch + 1
    /\ UNCHANGED <<clock, script, host, package_tracer, enabled, writer, made, regVars, lock,
                   wr, file, flushed, pc, loc, issued, hist>>

\* get_global_tracer() of the tracer module
GetGlobalTracer == global_tracer

\* set_global_tracer(tracer) of the package: it assigns the package's own variable
SetPackageTracer(t) ==
    /\ pc[t] = "idle"
    /\ ops > 0
    /\ ops' = ops - 1
    /\ package_tracer' = 1 - package_tracer
    /\ UNCHANGED <<clock, global_tracer, script, host, sessVars, regVars, lock, wr, file,
                   flushed, pc, loc, issued, hist>>

\* get_global_tracer() of the package
GetPackageTracer == package_tracer

\* the args given to the decorator
WrapArgs == {NoArgs, ArgsBad}

WrappersAtGuard(op) ==
    Cardinality({u \in Threads : loc[u].op = op /\ pc[u] \in {"G_get", "G_chk"}})

\* A wrapped function is called: live0 records that the global tracer is set, enabled
\* and started, quiet0 that no global tracer is set or that it is disabled.
CallWrapped(t, op, name, cat) ==
    /\ pc[t] = "idle"
    /\ ops > 0
    /\ ops' = ops - 1
    /\ \E a \in WrapArgs :
        loc' = [loc EXCEPT ![t] =
                    [IdleLoc EXCEPT !.op = op, !.epoch0 = epoch,
                                    !.live0 = (global_tracer = 1 /\ Live),
                                    !.quiet0 = (global_tracer = 0 \/ ~enabled),
                                    !.ev = [NoEvent EXCEPT !.name = name, !.cat = cat,
                                                           !.args = a]]]
    /\ pc' = [pc EXCEPT ![t] = "G_get"]
    /\ UNCHANGED <<envVars, sessVars, regVars, lock, wr, file, flushed, issued, hist>>

CallTraceFunction(t) == CallWrapped(t, "trace_function", "test_function", "function")

CallTraceAsyncFunction(t) ==
    /\ nextUuid + WrappersAtGuard("trace_async_function") < Len(Uuids)
    /\ CallWrapped(t, "trace_async_function", "test_async_function", "async_function")

\* "tracer = get_global_tracer()"
G_get(t) ==
    /\ pc[t] = "G_get"
    /\ loc' = [loc EXCEPT ![t].tr = global_tracer]
    /\ pc' = [pc EXCEPT ![t] = "G_chk"]
    /\ UNCHANGED <<envVars, sessVars, regVars, lock, wr, file, flushed, ops, issued, hist>>

\* A guard that forgets the enabled flag.
UntracedIfNone(tr, en) == tr = 0

\* "if tracer is None or not tracer.enabled"
Untraced(tr, en) == tr = 0 \/ ~en

\* the guard of both wrappers; then span() is entered, or async_begin is called with
\* no id, which draws a uuid
G_chk(t) ==
    /\ pc[t] = "G_chk"
    /\ IF Untraced(loc[t].tr, enabled)
       THEN /\ pc' = [pc EXCEPT ![t] = "F_run"]
            /\ UNCHANGED <<loc, nextUuid>>
       ELSE IF loc[t].op = "trace_function"
       THEN /\ loc' = [loc EXCEPT ![t].t0 = Now]
            /\ pc' = [pc EXCEPT ![t] = "SP_work"]
            /\ UNCHANGED nextUuid
       ELSE /\ nextUuid' = nextUuid + 1
            /\ loc' = [loc EXCEPT ![t].aid = Uuids[nextUuid + 1], ![t].ret = "AW_work"]
            /\ pc' = [pc EXCEPT ![t] = "AB_tid"]
    /\ UNCHANGED <<envVars, sessVars, active_spans, async_events, async_thread_ids,
                   nextSpan, lock, wr, file, flushed, ops, issued, hist>>

\* the wrapped function runs untraced: it returns, or it raises
F_run(t) ==
    /\ pc[t] = "F_run"
    /\ \E x \in BOOLEAN :
        loc' = [loc EXCEPT ![t] = Outcome([@ EXCEPT !.exc = x, !.ran = TRUE])]
    /\ pc' = [pc EXCEPT ![t] = "idle"]
    /\ UNCHANGED <<envVars, sessVars, regVars, lock, wr, file, flushed, ops, issued, hist>>

\* An async_end that is skipped when the wrapped function raises.
AfterWorkUnlessRaised(x) == IF x THEN "idle" ELSE "AE_pop"

\* "finally: tracer.async_end(async_id)": on every exit of the wrapped function
AfterWork(x) == "AE_pop"

\* the wrapped coroutine function runs between async_begin and async_end
AW_work(t) ==
    /\ pc[t] = "AW_work"
    /\ \E x \in BOOLEAN :
        /\ pc' = [pc EXCEPT ![t] = AfterWork(x)]
        /\ loc' = [loc EXCEPT ![t] =
                    IF AfterWork(x) = "idle"
                    THEN Outcome([@ EXCEPT !.exc = x, !.ran = TRUE])
                    ELSE [@ EXCEPT !.exc = x, !.ran = TRUE, !.ret = "idle"]]
    /\ UNCHANGED <<envVars, sessVars, regVars, lock, wr, file, flushed, ops, issued, hist>>

\* ------------------------------------------------------- the whole program
\* The state after Tracer(output_file, enabled), with n calls to come: sc is the
\* sequence of calls of a scripted host, empty when the threads call as they please;
\* h is the platform.
Hosted(n, sc, h) ==
    /\ enabled \in BOOLEAN
    /\ writer = 0
    /\ lock = 0
    /\ active_spans = <<>>
    /\ async_events = <<>>
    /\ async_thread_ids = <<>>
    /\ wr = [w \in WriterIds |-> NewWriter]
    /\ file = <<>>
    /\ flushed = 0
    /\ pc = [t \in Threads |-> "idle"]
    /\ loc = [t \in Threads |-> IdleLoc]
    /\ made = 0
    /\ nextSpan = 0
    /\ nextUuid = 0
    /\ ops = n
    /\ epoch = 0
    /\ issued = NoneIssued
    /\ hist = NoHist
    /\ clock = 0
    /\ global_tracer = 0
    /\ script = sc
    /\ host = h
    /\ package_tracer = 0

Scripted(n, sc) == Hosted(n, sc, PlainHost)

\* No script: the threads call as they please.
NoScript == [calls |-> <<>>, at |-> 1]

Constructed(n) == Scripted(n, NoScript)

SessionStep(t) ==
    \/ S_lock(t) \/ S_chk(t) \/ S_meta(t) \/ S_rel(t)
    \/ T_lock(t) \/ T_chk(t) \/ T_clear(t)
    \/ O_lock(t) \/ O_body(t)
    \/ C_lock(t) \/ C_body(t)

WriteStep(t) ==
    \/ WE_en(t) \/ WE_wr(t) \/ WE_load(t)
    \/ W_lock(t) \/ W_chk(t) \/ W_sep(t) \/ W_body(t) \/ W_flush(t)

SpanStep(t) == B_reg(t) \/ E_pop(t)

AsyncStep(t) == AB_tid(t) \/ AB_reg(t) \/ AI_tid(t) \/ AE_pop(t) \/ AE_clean(t)

\* Every operation of the session, from any thread.
Init == Constructed(MaxCalls)

Next ==
    \E t \in Threads :
        \/ SetEnabled(t)
        \/ CallStart(t) \/ CallStop(t) \/ CallMetadata(t)
        \/ CallInstant(t) \/ CallCounter(t) \/ CallSpan(t)
        \/ CallBeginSpan(t) \/ CallEndSpan(t)
        \/ CallAsyncBegin(t) \/ CallAsyncInstant(t) \/ CallAsyncEnd(t)
        \/ SessionStep(t) \/ WriteStep(t)
        \/ M_wr(t) \/ M_load(t) \/ SP_work(t)
        \/ SpanStep(t) \/ AsyncStep(t)

Spec == Init /\ [][Next]_vars

\* The session with the plain recording operations.
InitSession == Constructed(MaxOps)

NextSession ==
    \E t \in Threads :
        \/ SetEnabled(t)
        \/ CallStart(t) \/ CallStop(t) \/ CallMetadata(t)
        \/ CallInstant(t) \/ CallCounter(t) \/ CallSpan(t)
        \/ SessionStep(t) \/ WriteStep(t)
        \/ M_wr(t) \/ M_load(t) \/ SP_work(t)

SpecSession == InitSession /\ [][NextSession]_vars

\* The session with cross-thread spans.
NextSpans ==
    \E t \in Threads :
        \/ SetEnabled(t)
        \/ CallStart(t) \/ CallStop(t)
        \/ CallBeginSpan(t) \/ CallEndSpan(t)
        \/ SessionStep(t) \/ WriteStep(t)
        \/ SpanStep(t)

SpecSpans == InitSession /\ [][NextSpans]_vars

\* The session with async operations.
NextAsync ==
    \E t \in Threads :
        \/ SetEnabled(t)
        \/ CallStart(t) \/ CallStop(t)
        \/ CallAsyncBegin(t) \/ CallAsyncInstant(t) \/ CallAsyncEnd(t)
        \/ SessionStep(t) \/ WriteStep(t)
        \/ AsyncStep(t)

SpecAsync == InitSession /\ [][NextAsync]_vars

\* The session with scoped spans, while time passes.
NextScope ==
    \/ Tick
    \/ \E t \in Threads :
        \/ CallStart(t) \/ CallStop(t)
        \/ CallInstant(t) \/ CallSpan(t)
        \/ SessionStep(t) \/ WriteStep(t)
        \/ SP_work(t)

SpecScope == Init /\ [][NextScope]_vars

\* What the caller of a scope observes: an exception raised by the finally block
\* replaces the one of the wrapped work; "Work" is the failure of the wrapped work.
Raised(l) == IF l.err # "none" THEN l.err ELSE IF l.exc THEN "Work" ELSE "none"

\* A host that makes its calls one after another, each from any of its threads.
SpanScenario == <<"start", "instant_start", "span", "instant_end">>
AsyncScenario == <<"start", "async_begin", "async_instant", "async_end", "async_begin">>

Scenarios == {SpanScenario, AsyncScenario}

HostCall(t) ==
    /\ script.at <= Len(script.calls)
    /\ \A u \in Threads : pc[u] = "idle"
    /\ script' = [script EXCEPT !.at = @ + 1]
    /\ LET c == script.calls[script.at] IN
        CASE c = "start" ->
                Invoke(t, [IdleLoc EXCEPT !.op = "start"], IF enabled THEN "S_lock" ELSE "idle")
          [] c = "instant_start" -> Instant(t, "start")
          [] c = "instant_end" -> Instant(t, "end")
          [] c = "span" -> EnterSpan(t, "span", "work", "default", ArgsN3)
          [] c = "async_begin" ->
                Invoke(t, [IdleLoc EXCEPT !.op = "async_begin", !.ev = AsyncOperation,
                                          !.aid = "op"], "AB_tid")
          [] c = "async_instant" ->
                Invoke(t, [IdleLoc EXCEPT !.op = "async_instant", !.aid = "op"], "AI_tid")
          [] c = "async_end" ->
                Invoke(t, [IdleLoc EXCEPT !.op = "async_end", !.aid = "op"], "AE_pop")
    /\ UNCHANGED <<clock, global_tracer, host, package_tracer, sessVars, regVars, lock, wr,
                   file, flushed, issued, hist>>

InitScenario == \E sc \in Scenarios : Scripted(Len(sc), [calls |-> sc, at |-> 1])

NextScenario ==
    \/ Tick
    \/ \E t \in Threads :
        \/ HostCall(t)
        \/ S_lock(t) \/ S_chk(t) \/ S_meta(t) \/ S_rel(t)
        \/ O_lock(t) \/ O_body(t)
        \/ WriteStep(t)
        \/ SP_work(t)
        \/ AsyncStep(t)

SpecScenario == InitScenario /\ [][NextScenario]_vars

\* The wrappers around the global tracer.
NextWrap ==
    \E t \in Threads :
        \/ SetGlobalTracer(t) \/ SetEnabled(t)
        \/ CallStart(t) \/ CallStop(t)
        \/ CallTraceFunction(t) \/ CallTraceAsyncFunction(t)
        \/ G_get(t) \/ G_chk(t) \/ F_run(t) \/ AW_work(t) \/ SP_work(t)
        \/ SessionStep(t) \/ WriteStep(t)
        \/ AB_tid(t) \/ AB_reg(t) \/ AE_pop(t) \/ AE_clean(t)

SpecWrap == InitSession /\ [][NextWrap]_vars

\* ================================================================ claims
Count(f, P(_)) == Cardinality({i \in 1..Len(f) : P(f[i])})

IsSep(x) == x.tok = ","
IsClose(x) == x.tok = "]"
IsEv(x) == x.tok = "ev"

\* The writer of SpecW is closed and its file has been written.
ClosedAfterOpen == ~wr[1].file /\ file # <<>>

\* C1: once the writer has been opened, given N write_event calls that succeeded and
\* closed, the file is "[", the N events in call order with N-1 separators (none
\* before the first), and "]": it parses as an array of exactly those N elements.
C1_ArrayOfWrittenEvents ==
    (ClosedAfterOpen /\ ~hist.failed) =>
        /\ IsArray(file)
        /\ Elements(file) = hist.written
        /\ Count(file, IsEv) = Len(hist.written)
        /\ Count(file, IsSep) = (IF hist.written = <<>> THEN 0 ELSE Len(hist.written) - 1)
        /\ file[2].tok # ","

C1_Witness ==
    /\ ClosedAfterOpen
    /\ ~hist.failed
    /\ Len(hist.written) >= 2
    /\ IsArray(file)

\* C2: under every interleaving of write_event, open, close and flush calls by several
\* threads, a separator is directly followed by the event of the same write_event call
\* (or is the last token while that call still holds the lock), an event directly
\* follows "[" or a separator of its own call, and the first-event flag is consumed by
\* exactly one write per opening of the file.
C2_WritesAreContiguous ==
    /\ hist.consumed = (IF wr[1].first THEN 0 ELSE 1)
    /\ ~hist.failed =>
        \A i \in 1..Len(file) :
            /\ file[i].tok = "," =>
                IF i < Len(file)
                THEN file[i + 1].tok = "ev" /\ file[i + 1].by = file[i].by
                ELSE pc[file[i].by] = "W_body" /\ wr[1].lock = file[i].by
            /\ file[i].tok = "ev" =>
                \/ i = 2 /\ file[1].tok = "["
                \/ i > 2 /\ file[i - 1].tok = "," /\ file[i - 1].by = file[i].by
            /\ file[i].tok = "[" => i = 1
            /\ file[i].tok = "]" => i = Len(file)

C2_Witness ==
    \E t, u \in Threads :
        /\ t # u
        /\ pc[t] = "W_body"
        /\ file[Len(file)].tok = ","
        /\ file[Len(file) - 1].by = u
        /\ pc[u] \in {"W_lock", "C_lock", "O_lock", "F_lock"}

\* C8: write_event on a writer that holds no file (never opened, or closed) fails with
\* the not-open error and leaves the file content and the first-event flag unchanged.
C8_WriteOnClosedWriterFails ==
    [][\A t \in Threads :
        (pc[t] = "W_chk" /\ pc'[t] # "W_chk" /\ ~wr[loc[t].w].file) =>
            /\ pc'[t] = "idle"
            /\ loc'[t].err = "NotOpen"
            /\ loc'[t].wrote = 0
            /\ file' = file
            /\ wr'[loc[t].w].first = wr[loc[t].w].first
            /\ ~wr'[loc[t].w].file]_vars

C8_Witness ==
    \E t, u \in Threads :
        /\ pc[t] = "idle" /\ loc[t].op = "write_event" /\ loc[t].err = "NotOpen"
        /\ pc[u] = "idle" /\ loc[u].op = "write_event" /\ loc[u].err = "NotOpen"
        /\ t # u
        /\ ClosedAfterOpen
        /\ hist.written # <<>>

\* C9: open() on a writer that holds a file neither truncates the file nor resets the
\* first-event flag; close() on a writer that holds none writes nothing; so the file
\* never holds more than one closing token, and a closed file ends with exactly one.
C9_OpenCloseIdempotent ==
    [][/\ \A t \in Threads :
            /\ (pc[t] = "O_body" /\ pc'[t] # "O_body" /\ wr[loc[t].w].file) =>
                   /\ file' = file
                   /\ wr'[loc[t].w].first = wr[loc[t].w].first
                   /\ wr'[loc[t].w].file
            /\ (pc[t] = "C_body" /\ pc'[t] # "C_body" /\ ~wr[loc[t].w].file) =>
                   /\ file' = file
                   /\ ~wr'[loc[t].w].file
       /\ Count(file', IsClose) <= 1
       /\ (~wr'[1].file /\ file' # <<>>) =>
              Count(file', IsClose) = 1 /\ file'[Len(file')].tok = "]"]_vars

C9_Witness ==
    /\ hist.idemOpen >= 1
    /\ hist.idemClose >= 1
    /\ ClosedAfterOpen
    /\ hist.written # <<>>

\* The B or E events of span s in the file.
SpanEntries(s, ph) ==
    {i \in 1..Len(file) : file[i].tok = "ev" /\ file[i].ref = s /\ file[i].json.ph = ph}

\* C3: begin_span and end_span on a started session, from any threads, each returned
\* span id given to end_span once: the file holds exactly one duration-begin and one
\* duration-end event of the span, the begin first, with the same name and category.
C3_SpanYieldsOnePair ==
    \A t \in Threads :
        (/\ pc[t] = "idle"
         /\ loc[t].op = "end_span"
         /\ loc[t].ref # 0
         /\ hist.sp[loc[t].ref].e0 = epoch
         /\ hist.sp[loc[t].ref].ends = 1) =>
            /\ loc[t].err = "none"
            /\ Cardinality(SpanEntries(loc[t].ref, "B")) = 1
            /\ Cardinality(SpanEntries(loc[t].ref, "E")) = 1
            /\ \A b \in SpanEntries(loc[t].ref, "B"), e \in SpanEntries(loc[t].ref, "E") :
                /\ b < e
                /\ file[e].json.name = file[b].json.name
                /\ file[e].json.cat = file[b].json.cat

C3_Witness ==
    \E t \in Threads :
        /\ pc[t] = "idle"
        /\ loc[t].op = "end_span"
        /\ loc[t].ref # 0
        /\ hist.sp[loc[t].ref].e0 = epoch
        /\ hist.sp[loc[t].ref].ends = 1
        /\ \E b \in SpanEntries(loc[t].ref, "B"), e \in SpanEntries(loc[t].ref, "E") :
            /\ file[b].by # file[e].by
            /\ file[b].json.name = "load"

\* C4: every duration-end event in the file is preceded, in the same file, by the
\* duration-begin event of the span it closes.
C4_EndPrecededByBegin ==
    \A i \in 1..Len(file) :
        (file[i].tok = "ev" /\ file[i].json.ph = "E") =>
            \E j \in 1..(i - 1) :
                file[j].tok = "ev" /\ file[j].json.ph = "B" /\ file[j].ref = file[i].ref

\* C5: the async-end event of an id carries the id and the lane of the async-begin
\* event it closes, and the async-begin and async-end events of one id in the file
\* have the same lane, whatever other calls (on the same id too) interleave.
C5_AsyncPairSharesIdAndLane ==
    /\ \A t \in Threads :
        (loc[t].op = "async_end" /\ pc[t] \notin {"idle", "AE_pop"}) =>
            /\ loc[t].ev.ph = "e"
            /\ loc[t].ev.id = loc[t].aid
            /\ loc[t].ev.id = loc[t].bev.id
            /\ loc[t].ev.tid = loc[t].bev.tid
    /\ \A i, j \in 1..Len(file) :
        (/\ file[i].tok = "ev" /\ file[i].json.ph = "b"
         /\ file[j].tok = "ev" /\ file[j].json.ph = "e"
         /\ file[i].json.id = file[j].json.id) =>
            file[i].json.tid = file[j].json.tid

C5_Witness ==
    \E i, j \in 1..Len(file) :
        /\ i < j
        /\ file[i].tok = "ev" /\ file[i].json.ph = "b"
        /\ file[j].tok = "ev" /\ file[j].json.ph = "e"
        /\ file[i].json.id = file[j].json.id
        /\ file[i].by # file[j].by
        /\ \E u \in Threads : loc[u].op = "async_begin" /\ loc[u].aid = file[i].json.id
                              /\ u # file[i].by

RecordingOps ==
    {"instant", "counter", "span", "begin_span", "end_span",
     "async_begin", "async_instant", "async_end", "metadata"}

WriterPcs == {"WE_load", "M_load", "W_lock", "W_chk", "W_sep", "W_body", "W_flush"}

\* C6: a recording operation invoked while the session holds no writer or is disabled,
\* the session staying so, never reaches the writer: it writes no event and raises
\* no error.
C6_DroppedWhileStoppedOrDisabled ==
    \A t \in Threads :
        (loc[t].op \in RecordingOps /\ loc[t].quiet0 /\ loc[t].epoch0 = epoch) =>
            /\ loc[t].wrote = 0
            /\ loc[t].err = "none"
            /\ pc[t] \notin WriterPcs

C6_Witness ==
    \E t \in Threads :
        /\ pc[t] = "idle"
        /\ loc[t].op \in RecordingOps
        /\ loc[t].quiet0
        /\ loc[t].epoch0 = epoch
        /\ enabled
        /\ made >= 1
        /\ writer = 0

\* C7: a recording operation that runs while another thread runs start() or stop()
\* never raises: neither the writer's not-open error nor a failure from a writer
\* reference dropped between the guard and the call.
C7_RecordingNeverRaises ==
    \A t \in Threads :
        loc[t].op \in RecordingOps => loc[t].err \notin {"NotOpen", "Attribute"}

ProcessMeta(x) ==
    x.tok = "ev" /\ x.op = "start" /\ x.json.ph = "M" /\ x.json.name = "process_name"

\* C10: once a start() call on an enabled session has returned, and until stop() closes
\* the writer, however many start() calls were made (one after another or at once):
\* the session holds one writer, one writer was constructed, the file was opened once
\* and holds exactly one process metadata event.
C10_StartIdempotent ==
    hist.starts >= 1 =>
        /\ writer # 0
        /\ wr[writer].file
        /\ hist.created = 1
        /\ hist.opened = 1
        /\ Count(file, ProcessMeta) = 1

C10_Witness ==
    /\ hist.starts >= 2
    /\ lock = 0
    /\ writer # 0
    /\ Count(file, ProcessMeta) = 1

\* A stop() call of thread t returns in this step: from T_clear or T_chk, or at once
\* from the enabled guard.
StopReturns(t) ==
    /\ pc'[t] = "idle"
    /\ loc'[t].op = "stop"
    /\ \/ pc[t] \in {"T_clear", "T_chk"}
       \/ pc[t] = "idle" /\ ops' = ops - 1 /\ enabled' = enabled /\ nextSpan' = nextSpan
          /\ nextUuid' = nextUuid /\ global_tracer' = global_tracer
          /\ \A u \in Threads \ {t} : pc'[u] = pc[u] /\ loc'[u] = loc[u]

\* C11: whenever the session holds a writer, also after enabled was set to false
\* following start(), a stop() call closes the writer, so that the file ends with the
\* closing token, and drops the reference; a stop() on a session without a writer
\* changes nothing.
C11_StopClosesWriter ==
    [][\A t \in Threads :
        (StopReturns(t) /\ \A u \in Threads : loc[u].op = "start" => pc[u] \in {"idle", "S_lock"}) =>
            /\ writer' = 0
            /\ file' # <<>> => file'[Len(file')].tok = "]"
            /\ writer = 0 => file' = file /\ wr' = wr]_vars

\* A span() scope of thread t on a session that was started when the scope was entered
\* and has not been stopped, restarted or disabled since.
ScopeOnStarted(t) == loc[t].op = "span" /\ loc[t].live0 /\ loc[t].epoch0 = epoch

\* The complete event of the scope carries the start time read on entry and a
\* duration that is not negative, and it is what reaches the file.
ScopeEventTimed(t) ==
    /\ pc[t] \notin {"idle", "SP_work"} =>
        /\ loc[t].ev.ph = "X"
        /\ loc[t].ev.ts = loc[t].t0
        /\ loc[t].ev.dur # NoTime
        /\ loc[t].ev.dur[1] >= 0
    /\ pc[t] = "W_flush" =>
        /\ Serializable(loc[t].ev)
        /\ file[Len(file)].json = ToDict(loc[t].ev)
        /\ file[Len(file)].json.ts = IntOf(loc[t].t0)
        /\ file[Len(file)].json.dur >= 0

Events == SelectSeq(file, IsEv)

\* The scripted host has made the first n calls of scenario sc and the last has returned.
Made(sc, n) == script.calls = sc /\ script.at = n + 1 /\ \A u \in Threads : pc[u] = "idle"

\* C13: instant("start"), then span("work", args={"n":3}) around a failing operation,
\* then instant("end") on a started session put three events in the file, in this
\* order: instant, complete (dur >= 0, args {"n":3}), instant; and the caller of the
\* scope observes the failure of the wrapped operation.
C13_ScenarioYieldsThreeEvents ==
    /\ (Made(SpanScenario, 3) /\ enabled) =>
        \A t \in Threads : (loc[t].op = "span" /\ loc[t].exc) => Raised(loc[t]) = "Work"
    /\ (Made(SpanScenario, 4) /\ enabled) =>
        /\ Len(Events) = 4
        /\ Events[1].json.ph = "M"
        /\ Events[2].json.ph = "i" /\ Events[2].json.name = "start"
        /\ Events[3].json.ph = "X" /\ Events[3].json.name = "work"
        /\ Events[3].json.dur >= 0
        /\ Events[3].json.args = ArgsN3
        /\ Events[4].json.ph = "i" /\ Events[4].json.name = "end"

C13_Witness ==
    /\ Made(SpanScenario, 4)
    /\ enabled
    /\ \E t \in Threads : loc[t].op = "span" /\ loc[t].exc /\ Raised(loc[t]) = "Work"
    /\ Len(Events) = 4
    /\ Events[3].json.dur >= 1
    /\ Events[3].by # Events[4].by

\* C14: async_begin(id), async_instant(id), async_end(id) on a started session: the
\* async-instant and async-end events carry the lane of the async-begin event; once
\* async_end has returned, neither the lane cache nor the async registry holds the id;
\* a later async_begin with the same id registers it and computes its lane anew.
C14_AsyncScenarioReleasesLane ==
    /\ Made(AsyncScenario, 4) =>
        /\ "op" \notin DOMAIN async_thread_ids
        /\ "op" \notin DOMAIN async_events
    /\ ((Made(AsyncScenario, 4) \/ Made(AsyncScenario, 5)) /\ enabled) =>
        /\ Len(Events) >= 4
        /\ Events[2].json.ph = "b" /\ Events[3].json.ph = "n" /\ Events[4].json.ph = "e"
        /\ \A i \in 2..4 : Events[i].json.id = "op" /\ Events[i].json.tid = Events[2].json.tid
    /\ Made(AsyncScenario, 5) =>
        /\ "op" \in DOMAIN async_events
        /\ async_events["op"].tid = AsyncLane("op")
        /\ async_thread_ids = [i \in {"op"} |-> AsyncLane("op")]

C14_Witness ==
    /\ Made(AsyncScenario, 5)
    /\ enabled
    /\ Len(Events) = 5
    /\ Events[5].json.ph = "b"
    /\ Events[2].by # Events[4].by

\* C15: under any interleaving of async_begin, async_instant and async_end calls from
\* several threads, calls reusing one id included, every id registered in the async
\* registry also has an entry in the lane cache.
C15_OpenIdHasLane == DOMAIN async_events \subseteq DOMAIN async_thread_ids

\* Thread t takes a step of its call.
StepOf(t) == pc[t] # "idle" /\ pc'[t] # pc[t]

\* C16: end_span with a token that was never issued or was consumed already, and
\* async_end with an id that has no open registration, return at once: no event, no
\* error, and active_spans, the async registry and the lane cache stay as they are.
C16_ClosingUnknownHandleIsNoOp ==
    [][\A t \in Threads :
        (\/ pc[t] = "E_pop" /\ pc'[t] # "E_pop" /\ loc[t].ref \notin DOMAIN active_spans
         \/ pc[t] = "AE_pop" /\ pc'[t] # "AE_pop" /\ loc[t].aid \notin DOMAIN async_events) =>
            /\ pc'[t] = "idle"
            /\ loc'[t].err = "none"
            /\ loc'[t].wrote = 0
            /\ UNCHANGED <<active_spans, async_events, async_thread_ids, file, wr>>]_vars

C16_Witness ==
    \E t, u \in Threads :
        /\ pc[t] = "idle" /\ loc[t].op = "async_end" /\ loc[t].wrote = 0
        /\ loc[t].aid \in DOMAIN async_thread_ids
        /\ loc[t].aid \notin DOMAIN async_events
        /\ pc[u] = "idle" /\ loc[u].op = "end_span" /\ loc[u].wrote = 0

\* C17: begin_span, async_begin and async_instant invoked while the session is stopped
\* or disabled, the session staying so, leave active_spans, the async registry and the
\* lane cache as they are.
C17_DroppedCallLeavesRegistries ==
    [][\A t \in Threads :
        (/\ StepOf(t)
         /\ loc[t].op \in {"begin_span", "async_begin", "async_instant"}
         /\ loc[t].quiet0
         /\ loc[t].epoch0 = epoch) =>
            UNCHANGED <<active_spans, async_events, async_thread_ids>>]_vars

\* The events of phase ph with correlation id in the file.
AsyncEntries(id, ph) ==
    {i \in 1..Len(file) : file[i].tok = "ev" /\ file[i].json.ph = ph
                           /\ "id" \in DOMAIN file[i].json /\ file[i].json.id = id}

\* An execution by thread t of a function under the async wrapper, the global tracer
\* being set, enabled and started from the call on.
AsyncWrappedOnStarted(t) ==
    loc[t].op = "trace_async_function" /\ loc[t].live0 /\ loc[t].epoch0 = epoch

\* C18: every execution of a function wrapped by the async wrapper, with a global
\* tracer that is set, enabled and started: exactly one async-begin event is in the
\* file before the work starts and exactly one async-end event with the same id follows
\* it once the work has finished, whether it returned or raised; the id is then no
\* longer registered, and the caller gets the outcome of the work.
C18_AsyncWrapperEmitsOnePair ==
    \A t \in Threads :
        AsyncWrappedOnStarted(t) =>
            /\ pc[t] = "AW_work" =>
                /\ Cardinality(AsyncEntries(loc[t].aid, "b")) = 1
                /\ AsyncEntries(loc[t].aid, "e") = {}
            /\ (pc[t] = "idle" /\ loc[t].ran) =>
                /\ Cardinality(AsyncEntries(loc[t].aid, "b")) = 1
                /\ Cardinality(AsyncEntries(loc[t].aid, "e")) = 1
                /\ \A b \in AsyncEntries(loc[t].aid, "b"), e \in AsyncEntries(loc[t].aid, "e") :
                    b < e /\ file[b].json.tid = file[e].json.tid
                /\ loc[t].aid \notin DOMAIN async_events
                /\ Raised(loc[t]) = (IF loc[t].exc THEN "Work" ELSE "none")

C18_Witness ==
    \E t \in Threads :
        /\ AsyncWrappedOnStarted(t)
        /\ pc[t] = "idle"
        /\ loc[t].ran
        /\ loc[t].exc
        /\ Cardinality(AsyncEntries(loc[t].aid, "e")) = 1

Scopes == {"span", "trace_function", "trace_async_function"}

\* C19: when the work wrapped by span() or by either wrapper fails, the caller observes
\* that failure: no failure of the tracing in the cleanup path, a write on a writer
\* closed meanwhile or args that do not serialize, takes its place.
C19_WorkFailurePropagates ==
    \A t \in Threads :
        (pc[t] = "idle" /\ loc[t].op \in Scopes /\ loc[t].ran /\ loc[t].exc) =>
            Raised(loc[t]) = "Work"

\* C20: a call through either wrapper while no global tracer is set or the global
\* tracer is disabled, this staying so, runs the wrapped function and hands on its
\* outcome: no event is written and no registry of the tracer changes.
C20_UntracedCallRunsWorkOnly ==
    [][\A t \in Threads :
        (/\ StepOf(t)
         /\ loc[t].op \in {"trace_function", "trace_async_function"}
         /\ loc[t].quiet0
         /\ loc[t].epoch0 = epoch) =>
            /\ pc'[t] \in {"G_chk", "F_run", "idle"}
            /\ UNCHANGED <<active_spans, async_events, async_thread_ids, nextUuid, file, wr>>
            /\ pc'[t] = "idle" =>
                /\ pc[t] = "F_run"
                /\ loc'[t].ran
                /\ loc'[t].wrote = 0
                /\ Raised(loc'[t]) = (IF loc'[t].exc THEN "Work" ELSE "none")]_vars

C20_Witness ==
    \E t, u \in Threads :
        /\ t # u
        /\ pc[t] = "idle" /\ pc[u] = "idle"
        /\ loc[t].op = "trace_function" /\ loc[u].op = "trace_async_function"
        /\ loc[t].quiet0 /\ loc[u].quiet0
        /\ loc[t].epoch0 = epoch /\ loc[u].epoch0 = epoch
        /\ loc[t].ran /\ loc[u].ran
        /\ loc[t].exc
        /\ global_tracer = 1
        /\ ~enabled

\* The positions inside the critical section of the writer, where the sink is opened,
\* written or closed.
SinkPcs == {"O_body", "C_body", "W_chk", "W_sep", "W_body", "W_flush"}

\* C21: no thread performs sink I/O while it holds the registry lock of the session: a
\* thread inside the critical section of the writer does not hold Tracer._lock,
\* whatever the operation, start() and stop() included.
C21_NoSinkIoUnderRegistryLock ==
    \A t \in Threads : pc[t] \in SinkPcs => lock # t

\* ------------------------------------------------------------------ lanes
MaxLaneCalls == 3

\* Values of an md5 prefix: at the edges of a lane range and beyond it.
HashSamples == {LaneWidth - 1, LaneWidth, 2147483647}

\* Idents the platform may give thread t: the ident is an opaque nonzero integer.
IdentSamples(t) == {t, TaskLaneBase + t, AsyncLaneBase + t}

Hosts ==
    {[ident |-> i, task |-> k, md5 |-> m] :
        i \in {f \in [Threads -> UNION {IdentSamples(t) : t \in Threads}] :
                    \A t \in Threads : f[t] \in IdentSamples(t)},
        k \in [Threads -> {NoTask} \cup HashSamples],
        m \in [AsyncIds -> HashSamples]}

\* A started or unstarted session on any platform; the host makes its calls one
\* after another, each from any thread, inside a task or not.
InitLanes == \E h \in Hosts : Hosted(MaxLaneCalls, NoScript, h) /\ enabled

NextLanes ==
    \E t \in Threads :
        \/ /\ \A u \in Threads : pc[u] = "idle"
           /\ (CallStart(t) \/ CallInstant(t) \/ CallAsyncInstant(t))
        \/ S_lock(t) \/ S_chk(t) \/ S_meta(t) \/ S_rel(t)
        \/ O_lock(t) \/ O_body(t)
        \/ WriteStep(t)
        \/ AI_tid(t)

SpecLanes == InitLanes /\ [][NextLanes]_vars

InTaskRange(x) == x >= TaskLaneBase /\ x < TaskLaneBase + LaneWidth
InAsyncRange(x) == x >= AsyncLaneBase /\ x < AsyncLaneBase + LaneWidth

\* The events of the file whose lane is the default one of the recording thread, taken
\* inside a task or outside one.
DefaultLaneEvents(inTask) ==
    {i \in 1..Len(file) :
        /\ file[i].tok = "ev"
        /\ file[i].op = "instant"
        /\ (host.task[file[i].by] # NoTask) = inTask}

\* The events of the file that carry an async id.
AsyncLaneEvents == {i \in 1..Len(file) : file[i].tok = "ev" /\ "id" \in DOMAIN file[i].json}

\* C22: every lane produced for a task lies in [0x10000000, 0x1FFFFFFF] and every lane
\* produced for an async id lies in [0x20000000, 0x2FFFFFFF], whatever the key hashes
\* to; hence a task lane never equals the lane of an async operation.
C22_SyntheticLanesInRange ==
    /\ \A i \in DefaultLaneEvents(TRUE) : InTaskRange(file[i].json.tid)
    /\ \A i \in AsyncLaneEvents : InAsyncRange(file[i].json.tid)
    /\ \A id \in DOMAIN async_thread_ids : InAsyncRange(async_thread_ids[id])
    /\ \A i \in DefaultLaneEvents(TRUE), j \in AsyncLaneEvents :
            file[i].json.tid # file[j].json.tid

\* A task whose hash wraps to the bottom of its range and an async id whose hash
\* lands at the top of its range have both been recorded.
C22_Witness ==
    /\ \E i \in DefaultLaneEvents(TRUE) :
            /\ host.task[file[i].by] = LaneWidth
            /\ file[i].json.tid = TaskLaneBase
    /\ \E j \in AsyncLaneEvents :
            /\ host.md5[file[j].json.id] = 2147483647
            /\ file[j].json.tid = AsyncLaneBase + LaneWidth - 1

\* C23: an event recorded outside a task, with the lane taken from the identity of the
\* current thread, has a lane outside both reserved synthetic ranges.
C23_ThreadLanesOutsideReserved ==
    \A i \in DefaultLaneEvents(FALSE) :
        /\ ~InTaskRange(file[i].json.tid)
        /\ ~InAsyncRange(file[i].json.tid)

\* The async-instant events of the file.
AsyncInstants == {i \in 1..Len(file) : file[i].tok = "ev" /\ file[i].op = "async_instant"}

\* C24: async_instant(id) on a session that is started and stays so emits exactly one
\* async-instant event, tagged with id and with the lane the allocator assigns to id,
\* whether or not the id was begun before; the call leaves the lane of an unseen id
\* allocated.
C24_AsyncInstantEmitsOnAllocatedLane ==
    /\ [](\A t \in Threads :
            /\ (/\ pc[t] = "idle" /\ loc[t].op = "async_instant"
                /\ loc[t].live0 /\ loc[t].epoch0 = epoch) =>
                    loc[t].err = "none" /\ loc[t].wrote = 1
            /\ (loc[t].op = "async_instant" /\ pc[t] \notin {"idle", "AI_tid"}) =>
                    /\ loc[t].ev.ph = "n"
                    /\ loc[t].ev.id = loc[t].aid
                    /\ loc[t].ev.tid = AsyncLane(loc[t].aid))
    /\ [](\A i \in AsyncInstants :
            /\ file[i].json.ph = "n"
            /\ "id" \in DOMAIN file[i].json
            /\ file[i].json.tid = AsyncLane(file[i].json.id))
    /\ [][\A t \in Threads :
            (pc[t] = "AI_tid" /\ pc'[t] # "AI_tid") =>
                /\ loc[t].aid \in DOMAIN async_thread_ids'
                /\ async_thread_ids'[loc[t].aid] = AsyncLane(loc[t].aid)
                /\ loc'[t].tid = async_thread_ids'[loc[t].aid]]_vars

\* An async_instant on an id that was never begun has returned on a started session,
\* and its event is in the file.
C24_Witness ==
    \E t \in Threads :
        /\ pc[t] = "idle" /\ loc[t].op = "async_instant"
        /\ loc[t].live0 /\ loc[t].epoch0 = epoch
        /\ loc[t].wrote = 1
        /\ \A i \in 1..Len(file) : file[i].tok = "ev" => file[i].json.ph # "b"
        /\ \E i \in AsyncInstants : file[i].by = t /\ file[i].json.id = "op"

\* ------------------------------------------------------------- arguments
MaxDepth == 2
MaxArgCalls == 2

\* The values of nesting depth d at most: a primitive, a Path, an object json cannot
\* encode, and the dicts and lists of one such value.
RECURSIVE ArgValues(_)
ArgValues(d) ==
    IF d = 0
    THEN {IntV(1), PathV("/a"), ObjV}
    ELSE LET V == ArgValues(d - 1) IN
            V \cup {MapV([p |-> x]) : x \in V} \cup {SeqV(<<x>>) : x \in V}

ArgSamples == {[a |-> x] : x \in ArgValues(MaxDepth)}

\* instant(name, args=a)
CallInstantArgs(t) ==
    /\ \E a \in ArgSamples :
        Invoke(t, [IdleLoc EXCEPT !.op = "instant",
                                  !.ev = TraceEvent(t, "start", "i", "default", a,
                                                    -1, -1, NoneId)], "WE_en")
    /\ UNCHANGED <<envVars, sessVars, regVars, lock, wr, file, flushed, issued, hist>>

\* A session whose host records instants with arguments, one call after another.
InitArgs == Constructed(MaxArgCalls) /\ enabled

NextArgs ==
    \E t \in Threads :
        \/ /\ \A u \in Threads : pc[u] = "idle"
           /\ (CallStart(t) \/ CallInstantArgs(t))
        \/ S_lock(t) \/ S_chk(t) \/ S_meta(t) \/ S_rel(t)
        \/ O_lock(t) \/ O_body(t)
        \/ WriteStep(t)

SpecArgs == InitArgs /\ [][NextArgs]_vars

\* The value with every Path in it replaced by its string, at every depth.
RECURSIVE Sanitized(_)
Sanitized(x) ==
    CASE x.kind = "path" -> StrV(x.v)
      [] x.kind \in {"map", "seq"} -> [x EXCEPT !.v = [k \in DOMAIN x.v |-> Sanitized(x.v[k])]]
      [] OTHER -> x

\* The value holds, at some depth, a value that is neither primitive, Path, dict nor list.
RECURSIVE HasOther(_)
HasOther(x) ==
    CASE x.kind = "obj" -> TRUE
      [] x.kind \in {"map", "seq"} -> \E k \in DOMAIN x.v : HasOther(x.v[k])
      [] OTHER -> FALSE

\* C26: sanitization is recursive: when the event of instant(name, args) is written,
\* args holding an unsupported value at any depth raise the serialization error there
\* and leave the file alone, and any other args are written with every Path replaced
\* by its string at every depth; constructing the event raises nothing.
C26_SanitizationIsRecursive ==
    [][\A t \in Threads :
        (pc[t] = "W_body" /\ pc'[t] # "W_body" /\ loc[t].op = "instant") =>
            IF HasOther(MapV(loc[t].ev.args))
            THEN loc'[t].err = "Serialization" /\ file' = file
            ELSE /\ loc'[t].err = "none"
                 /\ Len(file') = Len(file) + 1
                 /\ MapV(file'[Len(file')].json.args) = Sanitized(MapV(loc[t].ev.args))]_vars

\* The counter events of the file.
Counters == {i \in 1..Len(file) : file[i].tok = "ev" /\ file[i].op = "counter"}

\* C25: counter(name, v) on a session that is started and stays so emits exactly one
\* counter event, whose args are {"value": v}, for every v, 0 included.
C25_CounterEmitsValue ==
    /\ [](\A t \in Threads :
            /\ (/\ pc[t] = "idle" /\ loc[t].op = "counter"
                /\ loc[t].live0 /\ loc[t].epoch0 = epoch) =>
                    loc[t].err = "none" /\ loc[t].wrote = 1
            /\ (loc[t].op = "counter" /\ pc[t] # "idle") =>
                    \E v \in CounterValues : loc[t].ev.args = [value |-> IntV(v)])
    /\ [](\A i \in Counters :
            /\ file[i].json.ph = "C"
            /\ "args" \in DOMAIN file[i].json
            /\ \E v \in CounterValues : file[i].json.args = [value |-> IntV(v)])
    /\ [][\A t \in Threads :
            (pc[t] = "W_body" /\ pc'[t] # "W_body" /\ loc[t].op = "counter") =>
                /\ Len(file') = Len(file) + 1
                /\ file'[Len(file')].json.args = loc[t].ev.args]_vars

\* counter(name, 0) has returned on a started session and its event is in the file.
C25_Witness ==
    \E t \in Threads :
        /\ pc[t] = "idle" /\ loc[t].op = "counter"
        /\ loc[t].live0 /\ loc[t].epoch0 = epoch
        /\ loc[t].wrote = 1
        /\ file # <<>>
        /\ file[Len(file)].tok = "ev" /\ file[Len(file)].op = "counter"
        /\ file[Len(file)].by = t
        /\ file[Len(file)].json.args = [value |-> IntV(0)]

\* The records of the file.
Records == {i \in 1..Len(file) : file[i].tok = "ev"}

\* C27: every record a Tracer operation writes has name, ph, ts, pid, tid and cat; it
\* has dur only if it is a complete event and id only if it is an async event; and it
\* has args if and only if the argument map of the event is not empty.
C27_RecordFields ==
    /\ [](\A i \in Records :
            /\ {"name", "ph", "ts", "pid", "tid", "cat"} \subseteq DOMAIN file[i].json
            /\ "dur" \in DOMAIN file[i].json => file[i].json.ph = "X"
            /\ "id" \in DOMAIN file[i].json => file[i].json.ph \in {"b", "n", "e"}
            /\ "args" \in DOMAIN file[i].json => file[i].json.args # NoArgs)
    /\ [][\A t \in Threads :
            (pc[t] = "W_body" /\ pc'[t] = "W_flush") =>
                /\ Len(file') = Len(file) + 1
                /\ ("args" \in DOMAIN file'[Len(file')].json) <=> (loc[t].ev.args # NoArgs)]_vars

\* The file holds a complete event with dur and args, an async event with an id, and
\* a record without args.
C27_Witness ==
    /\ \E i \in Records : {"dur", "args"} \subseteq DOMAIN file[i].json
    /\ \E i \in Records : "id" \in DOMAIN file[i].json
    /\ \E i \in Records : "args" \notin DOMAIN file[i].json

\* C28: a write_event that fails because the event cannot be serialized leaves the
\* file and the first-event flag as they were: when the error is raised the file does
\* not end with a separator the call wrote, and a file that holds no event yet still
\* has its first-event flag set.
C28_FailedWriteLeavesFileIntact ==
    [][\A t \in Threads :
        (pc[t] = "W_body" /\ pc'[t] = "idle" /\ loc'[t].err = "Serialization") =>
            /\ file' = file
            /\ file[Len(file)].tok # ","
            /\ file[Len(file)].tok = "[" => wr'[loc[t].w].first]_vars

\* ------------------------------------------------- closing from many threads
\* A host that starts the session and then opens and closes spans and async
\* operations from any thread.
InitClose == Constructed(MaxOps) /\ enabled

NextClose ==
    \E t \in Threads :
        \/ CallStart(t)
        \/ /\ Live
           /\ (CallBeginSpan(t) \/ CallEndSpan(t) \/ CallAsyncBegin(t) \/ CallAsyncEnd(t))
        \/ S_lock(t) \/ S_chk(t) \/ S_meta(t) \/ S_rel(t)
        \/ O_lock(t) \/ O_body(t)
        \/ WriteStep(t)
        \/ SpanStep(t)
        \/ AB_tid(t) \/ AB_reg(t) \/ AE_pop(t) \/ AE_clean(t)

SpecClose == InitClose /\ [][NextClose]_vars

\* The positions of a call that has its event in hand and has not written it yet.
PreWritePcs == {"WE_en", "WE_wr", "WE_load", "W_lock", "W_chk", "W_sep", "W_body"}

\* The end_span calls on span s that took the registration and have yet to write.
EndingSpan(s) ==
    {t \in Threads : loc[t].op = "end_span" /\ loc[t].ref = s /\ pc[t] \in PreWritePcs}

\* The async_end calls on id that took the registration and have yet to write.
EndingAsync(id) ==
    {t \in Threads : loc[t].op = "async_end" /\ loc[t].aid = id /\ pc[t] \in PreWritePcs}

\* The async events of id and phase ph in the file.
AsyncRecords(id, ph) ==
    {i \in Records : file[i].json.ph = ph /\ "id" \in DOMAIN file[i].json
                                         /\ file[i].json.id = id}

\* Every thread has called end_span(s), or async_end(id), last and has returned.
AllEndedSpan(s) == \A t \in Threads : pc[t] = "idle" /\ loc[t].op = "end_span" /\ loc[t].ref = s
AllEndedAsync(id) ==
    \A t \in Threads : pc[t] = "idle" /\ loc[t].op = "async_end" /\ loc[t].aid = id

\* The async ids async_begin drew itself and returned: each is registered once.
OnceBegun == issued.ids \ AsyncIds

\* C29: when several threads call end_span with one open span id, or async_end with
\* one open async id returned by async_begin, the registration is consumed exactly
\* once under every interleaving: at most one call ever holds or has written the end
\* event, and when all have returned exactly one end event is in the file, written by
\* one call, the others having written nothing and raised nothing.
C29_RegistrationConsumedOnce ==
    /\ \A s \in issued.spans :
        /\ Cardinality(SpanEntries(s, "E")) + Cardinality(EndingSpan(s)) <= 1
        /\ AllEndedSpan(s) =>
            /\ Cardinality(SpanEntries(s, "E")) = 1
            /\ Cardinality({t \in Threads : loc[t].wrote = 1}) = 1
            /\ \A t \in Threads : loc[t].err = "none" /\ loc[t].wrote <= 1
    /\ \A id \in OnceBegun :
        /\ Cardinality(AsyncRecords(id, "e")) + Cardinality(EndingAsync(id)) <= 1
        /\ AllEndedAsync(id) =>
            /\ Cardinality(AsyncRecords(id, "e")) = 1
            /\ Cardinality({t \in Threads : loc[t].wrote = 1}) = 1
            /\ \A t \in Threads : loc[t].err = "none" /\ loc[t].wrote <= 1

\* Two threads are inside end_span with the same open span id at once, or inside
\* async_end with the same open async id: one has taken the registration, the other
\* is about to look it up.
C29_Witness ==
    \/ \E s \in issued.spans, t, u \in Threads :
        /\ t \in EndingSpan(s)
        /\ pc[u] = "E_pop" /\ loc[u].op = "end_span" /\ loc[u].ref = s
    \/ \E id \in OnceBegun, t, u \in Threads :
        /\ t \in EndingAsync(id)
        /\ pc[u] = "AE_pop" /\ loc[u].op = "async_end" /\ loc[u].aid = id

\* C30: for a caller-supplied async id on a started session, whatever the interleaving
\* of async_begin(id) in one thread with async_end(id) in another, an async-end event
\* of the id in the file is preceded by the async-begin event it closes.
C30_AsyncEndAfterBegin ==
    \A id \in AsyncIds : \A i \in AsyncRecords(id, "e") :
        Cardinality({j \in AsyncRecords(id, "b") : j < i})
            >= Cardinality({j \in AsyncRecords(id, "e") : j <= i})

\* ------------------------------------------------------------- progress
\* The steps thread t takes inside a call it has made.
Step(t) ==
    \/ SessionStep(t) \/ WriteStep(t)
    \/ M_wr(t) \/ M_load(t) \/ SP_work(t)
    \/ SpanStep(t) \/ AsyncStep(t)

\* Every operation of the session, from any thread, under a scheduler that lets every
\* thread that can take a step take one eventually; the wrapped work of a scope ends.
SpecFair == Init /\ [][Next]_vars /\ \A t \in Threads : WF_vars(Step(t))

\* The positions at which a thread acquires Tracer._lock.
RegistryLockPcs ==
    {"S_lock", "T_lock", "B_reg", "E_pop", "AB_tid", "AB_reg", "AI_tid", "AE_pop", "AE_clean"}

HoldsWriterLock(t) == \E w \in WriterIds : wr[w].lock = t

\* C31: no interleaving of the operations deadlocks: a thread that holds the lock of a
\* writer never goes for the registry lock (the order is registry, then writer) and
\* holds one writer lock at most, and under fair scheduling every call returns.
C31_NoDeadlock ==
    /\ [](\A t \in Threads :
            HoldsWriterLock(t) =>
                /\ pc[t] \notin RegistryLockPcs
                /\ Cardinality({w \in WriterIds : wr[w].lock = t}) = 1)
    /\ \A t \in Threads : (pc[t] # "idle") ~> (pc[t] = "idle")

\* A thread inside stop() holds the registry lock and waits for the lock of the
\* writer, which a recording call of another thread holds.
C31_Witness ==
    \E t, u \in Threads :
        /\ lock = t /\ pc[t] = "C_lock"
        /\ HoldsWriterLock(u) /\ loc[u].op \in RecordingOps

\* ------------------------------------------------------- callers' order
ProgramLen == 3

\* The program of every caller: instant(...), then counter(...), then metadata(...).
\* Rank is how far a caller whose last call was op has come.
Rank(op) ==
    CASE op = "instant" -> 1
      [] op = "counter" -> 2
      [] op = "metadata" -> 3
      [] OTHER -> 0

\* Thread t makes the next call of its program.
CallProgram(t) ==
    /\ Live
    /\ CASE Rank(loc[t].op) = 0 -> CallInstant(t)
         [] Rank(loc[t].op) = 1 -> CallCounter(t)
         [] Rank(loc[t].op) = 2 -> CallMetadata(t)
         [] OTHER -> FALSE

\* A host that starts the session, after which every thread runs the program.
InitOrder == Constructed(1 + NumThreads * ProgramLen) /\ enabled

NextOrder ==
    \E t \in Threads :
        \/ ~Live /\ writer = 0 /\ lock = 0 /\ CallStart(t)
        \/ CallProgram(t)
        \/ S_lock(t) \/ S_chk(t) \/ S_meta(t) \/ S_rel(t)
        \/ O_lock(t) \/ O_body(t)
        \/ WriteStep(t)
        \/ M_wr(t) \/ M_load(t)

SpecOrder == InitOrder /\ [][NextOrder]_vars

\* The records caller t has in the file, by its recording calls.
RecordsOf(t) == {i \in Records : file[i].by = t /\ Rank(file[i].op) > 0}

\* C32: on a session that stays started, the events one caller records are in the file
\* in the order of the caller's calls, however the calls of other callers interleave:
\* of two records of a caller the earlier is of the earlier call, and a caller that
\* has returned from its k-th call has k records in the file.
C32_CallerOrderPreserved ==
    \A t \in Threads :
        /\ \A i, j \in RecordsOf(t) : i < j => Rank(file[i].op) < Rank(file[j].op)
        /\ pc[t] = "idle" =>
                {Rank(file[i].op) : i \in RecordsOf(t)} = 1..Rank(loc[t].op)

\* Two callers have run their programs to the end, their records interleaved in
\* the file.
C32_Witness ==
    /\ \A t \in Threads : pc[t] = "idle" /\ Rank(loc[t].op) = ProgramLen
    /\ \E i, j, k \in Records :
        /\ i < j /\ j < k
        /\ Rank(file[i].op) > 0
        /\ file[i].by # file[j].by /\ file[i].by = file[k].by

\* C33: the process metadata event of start() is the first element of the file: under
\* every interleaving of start() with recording calls of other threads, the first
\* record the file holds is the one start() wrote.
C33_MetadataFirst ==
    \A i \in Records :
        (\A j \in Records : i <= j) =>
            /\ file[i].op = "start"
            /\ file[i].json.ph = "M"
            /\ file[i].json.name = "process_name"

\* No operation is in progress.
Quiescent == \A t \in Threads : pc[t] = "idle"

\* C34: in every state in which no operation is in progress and no async id is
\* registered as open, the lane cache is empty: no sequence of async_begin,
\* async_instant and async_end calls leaves a lane for an id that is not open.
C34_NoLaneWithoutOpenId ==
    (Quiescent /\ async_events = <<>>) => async_thread_ids = <<>>

\* ------------------------------------------------------ the two accessors
\* A host that sets the global tracer through the tracer module or through the
\* package, starts the session and calls wrapped functions.
NextGlobals ==
    \E t \in Threads :
        \/ SetGlobalTracer(t) \/ SetPackageTracer(t)
        \/ CallStart(t)
        \/ CallTraceFunction(t)
        \/ G_get(t) \/ G_chk(t) \/ F_run(t) \/ SP_work(t)
        \/ S_lock(t) \/ S_chk(t) \/ S_meta(t) \/ S_rel(t)
        \/ O_lock(t) \/ O_body(t)
        \/ WriteStep(t)

SpecGlobals == InitSession /\ [][NextGlobals]_vars

\* C35: the accessors of the package and of the tracer module designate the same
\* tracer: after set_global_tracer through either, get_global_tracer through the
\* other returns the tracer that was set, and the wrappers take that tracer.
C35_AccessorsAgree ==
    /\ [](GetPackageTracer = GetGlobalTracer)
    /\ [][\A t \in Threads :
            (pc[t] = "G_get" /\ pc'[t] = "G_chk") => loc'[t].tr = GetPackageTracer]_vars
====
